---------------------------- MODULE Spec2Model ----------------------------
(***************************************************************************)
(* A model of the WebAssembly binary decoder of src/src/lib.rs.            *)
(*                                                                         *)
(* The decoders are pure functions from a byte slice to a nom IResult.     *)
(* Each is an operator computed the way the code computes it; an action    *)
(* applies one decoder to the input of the state.                          *)
(*                                                                         *)
(* Representation.                                                         *)
(*   - a byte is an integer in 0..255, a slice is a sequence of bytes;     *)
(*   - a machine integer (u64, i64, u32, i32, usize) is the set of the     *)
(*     positions of its one bits, bit 0 being the least significant: a     *)
(*     u64 is a subset of 0..63, an i64 is the two's-complement pattern    *)
(*     (bit 63 is the sign).  The code's integers do not fit the model     *)
(*     checker's integers, and the decoders only or, shift, truncate and   *)
(*     subtract them;                                                      *)
(*   - an IResult is a record whose field kind is "Ok" (value, rest),      *)
(*     "Incomplete" (needed), "Error" (rest, code) for nom's               *)
(*     Err::Incomplete and Err::Error, "Panic" (msg) when the call         *)
(*     unwinds instead of returning, or "Abort" (msg, bytes) when the      *)
(*     process is aborted because an allocation failed.                    *)
(***************************************************************************)
EXTENDS Integers, Sequences, FiniteSets

VARIABLES
    input,            \* the byte slice handed to the decoder
    overflow_checks,  \* the build: TRUE with overflow checks (debug), FALSE wrapping (release)
    heap,             \* the most bytes the allocator grants to one request, a usize
    called,           \* the decoder that was applied, "none" before the call
    size,             \* the width argument of unsigned_int / signed_int, the id of section_id_size, else 0
    result            \* what the decoder returned

vars == <<input, overflow_checks, heap, called, size, result>>

-----------------------------------------------------------------------------
(* Machine integers as sets of bit positions *)

U64Bits == 64
U32Bits == 32

\* bit i of the byte b
Bit(b, i) == (b \div (2 ^ i)) % 2

\* a small natural number as a bit set
FromInt(n) == {i \in 0..30 : Bit(n, i) = 1}

\* the bit sets that are small natural numbers
Fits(bits) == bits \subseteq 0..30

RECURSIVE ToInt(_)
\* the natural number of a bit set that Fits
ToInt(bits) ==
    IF bits = {} THEN 0
    ELSE LET i == CHOOSE j \in bits : \A k \in bits : k <= j
         IN  2 ^ i + ToInt(bits \ {i})

\* (byte & 0x7f) as u64
Low7(byte) == {i \in 0..6 : Bit(byte, i) = 1}

\* (0x80 & byte) != 0
HighBit(byte) == Bit(byte, 7) = 1

\* (byte & 0x40) != 0
SignBit(byte) == Bit(byte, 6) = 1

\* x << shift on a 64-bit integer whose shift amount is in range or, in a
\* build without overflow checks, masked to the width
Shl(bits, shift) == {b + (shift % U64Bits) : b \in bits} \cap (0..(U64Bits - 1))

\* whether x << shift panics: "attempt to shift left with overflow"
ShlOverflows(shift) == overflow_checks /\ shift >= U64Bits

\* !0 << shift
OnesFrom(shift) == shift..(U64Bits - 1)

\* n as u32, index as i32
AsU32(bits) == bits \cap (0..(U32Bits - 1))

\* bit i of a bit set
BitAt(bits, i) == IF i \in bits THEN 1 ELSE 0

RECURSIVE SubBorrow(_, _, _, _, _, _)
\* a - b on w bits from bit i on, with the borrow into bit i and the bits of
\* the difference below i: the bits of the difference and the last borrow
SubBorrow(a, b, i, w, borrow, acc) ==
    IF i = w THEN [bits |-> acc, borrow |-> borrow]
    ELSE SubBorrow(a, b, i + 1, w,
                   IF BitAt(a, i) < BitAt(b, i) + borrow THEN 1 ELSE 0,
                   IF (BitAt(a, i) + BitAt(b, i) + borrow) % 2 = 1 THEN acc \cup {i} ELSE acc)

-----------------------------------------------------------------------------
(* nom's IResult *)

Ok(v, r)      == [kind |-> "Ok", value |-> v, rest |-> r]
Incomplete(n) == [kind |-> "Incomplete", needed |-> n]
Error(r, c)   == [kind |-> "Error", rest |-> r, code |-> c]
Panic(m)      == [kind |-> "Panic", msg |-> m]
Abort(m, b)   == [kind |-> "Abort", msg |-> m, bytes |-> b]

\* let (next, value) = r?; ... : K is the rest of the function on a success,
\* a failure is returned as it is
Try(r, K(_)) == IF r.kind = "Ok" THEN K(r) ELSE r

\* IResult::map_output
map_output(r, F(_)) == IF r.kind = "Ok" THEN Ok(F(r.value), r.rest) ELSE r

\* the slice split at count: nom::bytes::streaming::take
take(count, i) ==
    IF Fits(count) /\ ToInt(count) <= Len(i)
    THEN Ok(SubSeq(i, 1, ToInt(count)), SubSeq(i, ToInt(count) + 1, Len(i)))
    ELSE Incomplete(count)

\* take1 as the complete (not streaming) take would have it: the end of the
\* input is an ordinary error
take1_eof(i) ==
    IF i = <<>> THEN Error(i, "Eof") ELSE Ok(i[1], Tail(i))

\* takes 1 byte from the input stream and returns it
take1(i) == map_output(take(FromInt(1), i), LAMBDA output : output[1])

tag_return(t, ret, i) ==
    Try(take1(i), LAMBDA b :
        IF b.value = t THEN Ok(ret, b.rest) ELSE Error(b.rest, "Tag"))

tag_(t, i) == tag_return(t, t, i)

-----------------------------------------------------------------------------
(* WASM values *)

byte(i) == take1(i)

\* result |= ((byte & 0x7f) as u64) << shift
Accumulate(acc, b, shift) == acc \cup Shl(Low7(b), shift)

RECURSIVE unsigned_int_loop(_, _, _)
\* the loop of unsigned_int from (next, result, shift)
unsigned_int_loop(next, acc, shift) ==
    Try(take1(next), LAMBDA b :
        IF ShlOverflows(shift) THEN Panic("attempt to shift left with overflow")
        ELSE IF ~HighBit(b.value) THEN Ok(Accumulate(acc, b.value, shift), b.rest)
        ELSE unsigned_int_loop(b.rest, Accumulate(acc, b.value, shift), shift + 7))

RECURSIVE unsigned_int_loop8(_, _, _)
unsigned_int_loop8(next, acc, shift) ==
    Try(take1(next), LAMBDA b :
        IF ShlOverflows(shift) THEN Panic("attempt to shift left with overflow")
        ELSE IF ~HighBit(b.value) THEN Ok(Accumulate(acc, b.value, shift), b.rest)
        ELSE unsigned_int_loop8(b.rest, Accumulate(acc, b.value, shift), shift + 8))

\* unsigned_int advancing the shift by a whole byte
unsigned_int_shift8(sz, i) == unsigned_int_loop8(i, {}, 0)

\* Read an unsigned int.
unsigned_int(sz, i) == unsigned_int_loop(i, {}, 0)

\* the sign extension on the last byte: shift is already advanced
SignExtend(sz, acc, b, shift) ==
    IF shift < sz /\ SignBit(b) THEN acc \cup OnesFrom(shift) ELSE acc

RECURSIVE signed_int_loop(_, _, _, _)
\* the loop of signed_int from (next, result, shift)
signed_int_loop(sz, next, acc, shift) ==
    Try(take1(next), LAMBDA b :
        IF ShlOverflows(shift) THEN Panic("attempt to shift left with overflow")
        ELSE IF ~HighBit(b.value)
        THEN Ok(SignExtend(sz, Accumulate(acc, b.value, shift), b.value, shift + 7), b.rest)
        ELSE signed_int_loop(sz, b.rest, Accumulate(acc, b.value, shift), shift + 7))

\* Read a signed int
signed_int(sz, i) == signed_int_loop(sz, i, {}, 0)

\* Reads the length of a vector
vector_length(i) == map_output(unsigned_int(U32Bits, i), LAMBDA n : AsU32(n))

\* a continuation byte of UTF-8, 0x80..0xBF
Utf8Cont(s, k) == Len(s) >= k /\ s[k] \in 128..191

RECURSIVE from_utf8(_)
\* whether std::str::from_utf8 accepts the bytes: well-formed UTF-8, no
\* overlong form, no surrogate, nothing above U+10FFFF
from_utf8(s) ==
    IF s = <<>> THEN TRUE
    ELSE IF s[1] <= 127 THEN from_utf8(SubSeq(s, 2, Len(s)))
    ELSE IF s[1] \in 194..223
         THEN Utf8Cont(s, 2) /\ from_utf8(SubSeq(s, 3, Len(s)))
    ELSE IF s[1] \in 224..239
         THEN /\ Utf8Cont(s, 2) /\ Utf8Cont(s, 3)
              /\ (s[1] = 224 => s[2] >= 160)
              /\ (s[1] = 237 => s[2] <= 159)
              /\ from_utf8(SubSeq(s, 4, Len(s)))
    ELSE IF s[1] \in 240..244
         THEN /\ Utf8Cont(s, 2) /\ Utf8Cont(s, 3) /\ Utf8Cont(s, 4)
              /\ (s[1] = 240 => s[2] >= 144)
              /\ (s[1] = 244 => s[2] <= 143)
              /\ from_utf8(SubSeq(s, 5, Len(s)))
    ELSE FALSE

\* Read a name: a length, that many bytes, which expect() takes to be UTF-8
name(i) ==
    Try(vector_length(i), LAMBDA l :
        Try(take(l.value, l.rest), LAMBDA b :
            IF from_utf8(b.value) THEN Ok(b.value, b.rest) ELSE Panic("a valid string")))

-----------------------------------------------------------------------------
(* nom's combinators, for the error type (I, ErrorKind) *)

RECURSIVE alt(_)
\* nom::branch::alt over the results of the alternatives on the same input:
\* the first that is not an Err::Error, else the error of the last (for the
\* error type (I, ErrorKind), or and append keep the later error)
alt(rs) ==
    IF Len(rs) = 1 \/ rs[1].kind # "Error" THEN rs[1] ELSE alt(Tail(rs))

\* count == n, for a loop counter and a usize
CountIs(count, n) == Fits(n) /\ ToInt(n) = count

\* count < m
CountBelow(count, m) == ~Fits(m) \/ count < ToInt(m)

RECURSIVE parse(_, _)
RECURSIVE many_m_n_match(_, _, _, _, _, _, _)
\* the loop of many_m_n from (input, res, count): one call of the parser
many_m_n_loop(m, n, f, inp, res, count) ==
    many_m_n_match(parse(f, inp), m, n, f, inp, res, count)

\* the match on what the parser returned
many_m_n_match(r, m, n, f, inp, res, count) ==
    IF r.kind = "Ok"
    THEN IF r.rest = inp THEN Error(inp, "ManyMN")
         ELSE IF CountIs(count + 1, n) THEN Ok(Append(res, r.value), r.rest)
         ELSE many_m_n_loop(m, n, f, r.rest, Append(res, r.value), count + 1)
    ELSE IF r.kind = "Error"
    THEN IF CountBelow(count, m) THEN r ELSE Ok(res, inp)
    ELSE r

\* std::mem::size_of of what the parser named f returns: WasmType is an enum
\* of five unit variants, WasmFunctionType is two Vec (pointer, capacity,
\* length of 8 bytes each)
size_of(f) == IF f = "functype" THEN 48 ELSE 1

RECURSIVE AddCarry(_, _, _, _, _)
\* a + b from bit i on, unbounded
AddCarry(a, b, i, carry, acc) ==
    IF carry = 0 /\ (\A j \in a \cup b : j < i) THEN acc
    ELSE AddCarry(a, b, i + 1,
                  IF BitAt(a, i) + BitAt(b, i) + carry >= 2 THEN 1 ELSE 0,
                  IF (BitAt(a, i) + BitAt(b, i) + carry) % 2 = 1 THEN acc \cup {i} ELSE acc)

RECURSIVE Times(_, _, _, _)
\* acc + (m << shift) * k, unbounded
Times(m, k, shift, acc) ==
    IF k = 0 THEN acc
    ELSE Times(m, k \div 2, shift + 1,
               IF k % 2 = 1 THEN AddCarry(acc, {j + shift : j \in m}, 0, 0, {}) ELSE acc)

\* a <= b
AtMost(a, b) == a = b \/ (\E j \in b \ a : \A k \in a \ b : k < j)

\* the bytes of a request are more than isize::MAX
CapacityOverflow(bytes) == \E j \in bytes : j >= U64Bits - 1

\* the allocation of n bytes
alloc(bytes) ==
    IF CapacityOverflow(bytes) THEN Panic("capacity overflow")
    ELSE IF ~AtMost(bytes, heap) THEN Abort("memory allocation failed", bytes)
    ELSE Ok(<<>>, <<>>)

\* Vec::with_capacity(m) for a vector of what the parser named f returns
with_capacity(m, f) == alloc(Times(m, size_of(f), 0, {}))

\* nom::multi::many_m_n: the parser named f, between m and n times, into a
\* vector allocated for m elements before the first call of the parser
many_m_n(m, n, f, i) ==
    Try(with_capacity(m, f), LAMBDA res :
        IF n = {} THEN Ok(<<>>, i) ELSE many_m_n_loop(m, n, f, i, res.value, 0))

many_m(m, f, i) == many_m_n(m, m, f, i)

-----------------------------------------------------------------------------
(* WASM types *)

\* valtype also taking 0x40 for WasmType::Empty
valtype_or_empty(i) ==
    alt(<<tag_return(127, "I32", i),
          tag_return(126, "I64", i),
          tag_return(125, "F32", i),
          tag_return(124, "F64", i),
          tag_return(64, "Empty", i)>>)

valtype(i) ==
    alt(<<tag_return(127, "I32", i),
          tag_return(126, "I64", i),
          tag_return(125, "F32", i),
          tag_return(124, "F64", i)>>)

\* resulttype with no least count: many_m_n(0, length, valtype)
resulttype_upto(i) ==
    Try(vector_length(i), LAMBDA l : many_m_n({}, l.value, "valtype", l.rest))

resulttype(i) ==
    Try(vector_length(i), LAMBDA l : many_m(l.value, "valtype", l.rest))

functype(i) ==
    Try(tag_return(96, <<>>, i), LAMBDA t :
        Try(resulttype(t.rest), LAMBDA p :
            Try(resulttype(p.rest), LAMBDA r :
                Ok([parameter_types |-> p.value, result_types |-> r.value], r.rest))))

\* the parser handed to many_m, by name
parse(f, i) ==
    CASE f = "valtype"  -> valtype(i)
      [] f = "functype" -> functype(i)

\* Option<u32>
None == <<>>
Some(x) == <<x>>

limits_without_max(i) ==
    Try(tag_return(0, <<>>, i), LAMBDA t :
        Try(unsigned_int(U32Bits, t.rest), LAMBDA n :
            Ok([min |-> AsU32(n.value), max |-> None], n.rest)))

limits_with_max(i) ==
    Try(tag_return(1, <<>>, i), LAMBDA t :
        Try(unsigned_int(U32Bits, t.rest), LAMBDA n :
            Try(unsigned_int(U32Bits, n.rest), LAMBDA m :
                Ok([min |-> AsU32(n.value), max |-> Some(AsU32(m.value))], m.rest))))

limits(i) == alt(<<limits_without_max(i), limits_with_max(i)>>)

elemtype(i) == tag_return(112, "FuncRef", i)

tabletype(i) ==
    Try(elemtype(i), LAMBDA et :
        Try(limits(et.rest), LAMBDA lim :
            Ok([elemtype |-> et.value, limits |-> lim.value], lim.rest)))

globaltype(i) ==
    Try(valtype(i), LAMBDA t :
        Try(alt(<<tag_(0, t.rest), tag_(1, t.rest)>>), LAMBDA m :
            IF m.value = 0 THEN Ok([tag |-> "Const", type |-> t.value], m.rest)
            ELSE IF m.value = 1 THEN Ok([tag |-> "Var", type |-> t.value], m.rest)
            ELSE Panic("not a valid global type")))

-----------------------------------------------------------------------------
(* Instructions *)

blocktype_empty(i) == tag_return(64, [tag |-> "Empty"], i)

blocktype_valtype(i) ==
    map_output(valtype(i), LAMBDA t : [tag |-> "Valtype", type |-> t])

blocktype_typeindex(i) ==
    map_output(signed_int(33, i), LAMBDA index : [tag |-> "TypeIndex", index |-> AsU32(index)])

blocktype(i) ==
    alt(<<blocktype_empty(i), blocktype_valtype(i), blocktype_typeindex(i)>>)

-----------------------------------------------------------------------------
(* Modules *)

typeidx(i)   == map_output(unsigned_int(U32Bits, i), LAMBDA idx : AsU32(idx))
funcidx(i)   == map_output(unsigned_int(U32Bits, i), LAMBDA idx : AsU32(idx))
tableidx(i)  == map_output(unsigned_int(U32Bits, i), LAMBDA idx : AsU32(idx))
memidx(i)    == map_output(unsigned_int(U32Bits, i), LAMBDA idx : AsU32(idx))
globalidx(i) == map_output(unsigned_int(U32Bits, i), LAMBDA idx : AsU32(idx))
localidx(i)  == map_output(unsigned_int(U32Bits, i), LAMBDA idx : AsU32(idx))
labelidx(i)  == map_output(unsigned_int(U32Bits, i), LAMBDA idx : AsU32(idx))

section_id_size(id, i) ==
    Try(tag_(id, i), LAMBDA t : vector_length(t.rest))

\* what a u32 subtraction comes to, from its bits and its last borrow: a panic
\* in a build with overflow checks, the wrapped difference without
Sub32Of(d) ==
    IF overflow_checks /\ d.borrow = 1
    THEN Panic("attempt to subtract with overflow")
    ELSE Ok(d.bits, <<>>)

\* a - b on u32
Sub32(a, b) == Sub32Of(SubBorrow(a, b, 0, U32Bits, 0, {}))

\* custom_section taking the whole declared size after the name
custom_section_whole(i) ==
    Try(section_id_size(0, i), LAMBDA h :
        Try(name(h.rest), LAMBDA nm :
            Try(take(h.value, nm.rest), LAMBDA b :
                Ok([tag |-> "CustomSection", name |-> nm.value, bytes |-> b.value],
                   b.rest))))

custom_section(i) ==
    Try(section_id_size(0, i), LAMBDA h :
        Try(name(h.rest), LAMBDA nm :
            Try(Sub32(h.value, FromInt(Len(h.rest) - Len(nm.rest))), LAMBDA len :
                Try(take(len.value, nm.rest), LAMBDA b :
                    Ok([tag |-> "CustomSection", name |-> nm.value, bytes |-> b.value],
                       b.rest)))))

type_section(i) ==
    Try(section_id_size(1, i), LAMBDA h :
        Try(vector_length(h.rest), LAMBDA l :
            Try(many_m(l.value, "functype", l.rest), LAMBDA fs :
                Ok([tag |-> "TypeSection", types |-> fs.value], fs.rest))))

sections(i) == Panic("not yet implemented")

-----------------------------------------------------------------------------
(* The encoders of the variable-length integers (the decoders' collaborators) *)

\* x >> 7 on a u64
Shr7(bits) == {b - 7 : b \in {c \in bits : c >= 7}}

\* x >> 7 on an i64: the sign bit fills the top
Sar7(bits) ==
    Shr7(bits) \cup (IF (U64Bits - 1) \in bits THEN (U64Bits - 7)..(U64Bits - 1) ELSE {})

\* the byte whose low bits are the bit set
ByteOf(bits) == ToInt(bits \cap (0..6))

RECURSIVE LEB128(_)
\* unsigned LEB128: seven bits a byte, least significant first, the high bit
\* set on every byte but the last
LEB128(bits) ==
    IF Shr7(bits) = {} THEN <<ByteOf(bits)>>
    ELSE <<ByteOf(bits) + 128>> \o LEB128(Shr7(bits))

RECURSIVE SLEB128(_)
\* signed LEB128 of an i64: stops when the rest is all sign
SLEB128(bits) ==
    LET rest == Sar7(bits)
        done == \/ rest = {} /\ 6 \notin bits
                \/ rest = 0..(U64Bits - 1) /\ 6 \in bits
    IN  IF done THEN <<ByteOf(bits)>>
        ELSE <<ByteOf(bits) + 128>> \o SLEB128(rest)

-----------------------------------------------------------------------------
(* The inputs *)

MaxLen    == 2   \* every slice over Alphabet up to this length
MaxTags   == 3   \* value type tags after a vector length
MaxTypes  == 2   \* function types in a type section
MaxSize   == 9   \* the declared size of a section
MaxBytes  == 11  \* continuation bytes before the last byte of an integer

RECURSIVE Seqs(_, _)
\* the sequences over S of length up to n
Seqs(S, n) ==
    IF n = 0 THEN {<<>>}
    ELSE LET shorter == Seqs(S, n - 1)
         IN  shorter \cup {Append(q, x) : q \in {r \in shorter : Len(r) = n - 1}, x \in S}

RECURSIVE Rep(_, _)
\* n times the byte b
Rep(b, n) == IF n = 0 THEN <<>> ELSE <<b>> \o Rep(b, n - 1)

RECURSIVE Concat(_)
Concat(ss) == IF ss = <<>> THEN <<>> ELSE ss[1] \o Concat(Tail(ss))

\* tags, counts and integer bytes of every kind the decoders tell apart
Alphabet == {0, 1, 2, 64, 96, 112, 124, 127, 128, 255}

ValTags == {127, 126, 125, 124}

\* unsigned values: the powers of two, the all-ones patterns, and 624485
UValues ==
    {{}} \cup {{k} : k \in 0..(U64Bits - 1)} \cup {0..k : k \in 1..(U64Bits - 1)}
    \cup {{0, 2, 5, 6, 8, 9, 10, 15, 16, 19}}

\* signed values as i64 patterns: non-negative values (123455 among them)
\* and their complements (-123456 among them)
SValues ==
    LET pos == {{}} \cup {{k} : k \in 0..(U64Bits - 2)} \cup {0..k : k \in 1..(U64Bits - 2)}
                \cup {{0, 1, 2, 3, 4, 5, 9, 13, 14, 15, 16}}
    IN  pos \cup {(0..(U64Bits - 1)) \ v : v \in pos}

Suffixes == {<<>>, <<128>>, <<0, 255>>}

\* <<encoding ++ suffix, value, suffix>>
RoundTrips == {<<LEB128(v) \o s, v, s>> : v \in UValues, s \in Suffixes}

\* <<encoding, value>>
SignedCodes == {<<SLEB128(v), v>> : v \in SValues}

\* integers of many bytes, padded or overflowing
LongInts ==
    {Rep(b, n) \o <<t>> : b \in {128, 255}, n \in 3..MaxBytes, t \in {0, 1, 64, 127}}

\* a vector length and value type tags, one of them possibly not a tag
TaggedVectors ==
    {<<n>> \o ts : n \in 0..(MaxTags + 1), ts \in Seqs({127, 126, 64}, MaxTags)}

FuncTypes ==
    {<<96, 0, 0>>, <<96, 1, 127, 1, 126>>, <<96, 2, 125, 124, 0>>, <<96, 1, 64, 0>>}

\* vector lengths no input can hold: 4294967295 and 268435456
HugeLengths == {<<255, 255, 255, 255, 15>>, <<128, 128, 128, 128, 1>>}

\* vectors of value types and type sections of such a length
HugeVectors ==
    UNION {{l \o e, <<96>> \o l \o e, <<1, 0>> \o l \o e, <<1>> \o l \o l} :
              l \in HugeLengths, e \in {<<>>, <<127>>, <<96, 0, 0>>}}

TypeSections ==
    {<<1>> \o sz \o <<n>> \o Concat(fs) :
        sz \in {<<0>>, <<3>>, <<MaxSize>>, <<135, 0>>},
        n \in 0..(MaxTypes + 1),
        fs \in Seqs({<<96, 0, 0>>, <<96, 1, 127, 1, 126>>}, MaxTypes)}

\* an unsigned 32-bit field: 0, 1, 128 and a padded 0
Fields == {<<0>>, <<1>>, <<128, 1>>, <<128, 0>>}

\* limits without and with a maximum, bare and after the element type tag
LimitCodes ==
    LET ls == {<<0>> \o n : n \in Fields} \cup {<<1>> \o n \o m : n \in Fields, m \in Fields}
    IN  ls \cup {<<112>> \o l : l \in ls}

\* "", "a", "hello", U+00E9, and two that are not UTF-8
Names == {<<>>, <<97>>, <<104, 101, 108, 108, 111>>, <<195, 169>>, <<255>>, <<195, 40>>}

Following == {<<>>, <<255, 254>>, <<255, 254, 1>>}

\* <<n, an encoding of n>>: one byte, and padded to two
Codes(n) == {<<n, <<n>>>>, <<n, <<n + 128, 0>>>>}

\* id, size, name length, name, what follows
CustomSectionBytes(sz, ln, nm, fw) == <<0>> \o sz \o ln \o nm \o fw

\* <<section, declared size, bytes of the name's length, name, what follows>>
CustomCases ==
    UNION {{<<CustomSectionBytes(sz[2], ln[2], nm, fw), sz[1], Len(ln[2]), nm, fw>> :
               sz \in {<<k, <<k>>>> : k \in 0..MaxSize} \cup {<<8, <<136, 0>>>>},
               ln \in Codes(Len(nm)),
               fw \in Following} : nm \in Names}

CustomSections == {c[1] : c \in CustomCases}

Inputs ==
    Seqs(Alphabet, MaxLen) \cup {<<b>> : b \in 0..255}
    \cup {c[1] : c \in RoundTrips} \cup {c[1] : c \in SignedCodes}
    \cup LongInts \cup TaggedVectors \cup FuncTypes \cup LimitCodes
    \cup TypeSections \cup CustomSections \cup HugeVectors

Widths == {32, 33, 64}

\* what the allocator grants: 8 GiB and 64 GiB
Heaps == {{33}, {36}}

-----------------------------------------------------------------------------
Init ==
    /\ input \in Inputs
    /\ overflow_checks \in BOOLEAN
    /\ heap \in Heaps
    /\ called = "none"
    /\ size = 0
    /\ result = [kind |-> "None"]

\* the decoder d, with width or id sz, has returned r
Returned(d, sz, r) ==
    /\ called' = d
    /\ size' = sz
    /\ result' = r
    /\ UNCHANGED <<input, overflow_checks, heap>>

UnsignedInt ==
    /\ called = "none"
    /\ \E sz \in Widths : Returned("unsigned_int", sz, unsigned_int(sz, input))

SignedInt ==
    /\ called = "none"
    /\ \E sz \in Widths : Returned("signed_int", sz, signed_int(sz, input))

SectionIdSize ==
    /\ called = "none"
    /\ \E id \in {0, 1} : Returned("section_id_size", id, section_id_size(id, input))

Byte ==
    /\ called = "none"
    /\ Returned("byte", 0, byte(input))

VectorLength ==
    /\ called = "none"
    /\ Returned("vector_length", 0, vector_length(input))

Name ==
    /\ called = "none"
    /\ Returned("name", 0, name(input))

Valtype ==
    /\ called = "none"
    /\ Returned("valtype", 0, valtype(input))

Resulttype ==
    /\ called = "none"
    /\ Returned("resulttype", 0, resulttype(input))

Functype ==
    /\ called = "none"
    /\ Returned("functype", 0, functype(input))

LimitsWithoutMax ==
    /\ called = "none"
    /\ Returned("limits_without_max", 0, limits_without_max(input))

LimitsWithMax ==
    /\ called = "none"
    /\ Returned("limits_with_max", 0, limits_with_max(input))

Limits ==
    /\ called = "none"
    /\ Returned("limits", 0, limits(input))

Elemtype ==
    /\ called = "none"
    /\ Returned("elemtype", 0, elemtype(input))

Tabletype ==
    /\ called = "none"
    /\ Returned("tabletype", 0, tabletype(input))

Globaltype ==
    /\ called = "none"
    /\ Returned("globaltype", 0, globaltype(input))

BlocktypeEmpty ==
    /\ called = "none"
    /\ Returned("blocktype_empty", 0, blocktype_empty(input))

BlocktypeValtype ==
    /\ called = "none"
    /\ Returned("blocktype_valtype", 0, blocktype_valtype(input))

BlocktypeTypeindex ==
    /\ called = "none"
    /\ Returned("blocktype_typeindex", 0, blocktype_typeindex(input))

Blocktype ==
    /\ called = "none"
    /\ Returned("blocktype", 0, blocktype(input))

Typeidx ==
    /\ called = "none"
    /\ Returned("typeidx", 0, typeidx(input))

Funcidx ==
    /\ called = "none"
    /\ Returned("funcidx", 0, funcidx(input))

Tableidx ==
    /\ called = "none"
    /\ Returned("tableidx", 0, tableidx(input))

Memidx ==
    /\ called = "none"
    /\ Returned("memidx", 0, memidx(input))

Globalidx ==
    /\ called = "none"
    /\ Returned("globalidx", 0, globalidx(input))

Localidx ==
    /\ called = "none"
    /\ Returned("localidx", 0, localidx(input))

Labelidx ==
    /\ called = "none"
    /\ Returned("labelidx", 0, labelidx(input))

CustomSection ==
    /\ called = "none"
    /\ Returned("custom_section", 0, custom_section(input))

TypeSection ==
    /\ called = "none"
    /\ Returned("type_section", 0, type_section(input))

Sections ==
    /\ called = "none"
    /\ Returned("sections", 0, sections(input))

Next ==
    \/ UnsignedInt
    \/ SignedInt
    \/ SectionIdSize
    \/ Byte
    \/ VectorLength
    \/ Name
    \/ Valtype
    \/ Resulttype
    \/ Functype
    \/ LimitsWithoutMax
    \/ LimitsWithMax
    \/ Limits
    \/ Elemtype
    \/ Tabletype
    \/ Globaltype
    \/ BlocktypeEmpty
    \/ BlocktypeValtype
    \/ BlocktypeTypeindex
    \/ Blocktype
    \/ Typeidx
    \/ Funcidx
    \/ Tableidx
    \/ Memidx
    \/ Globalidx
    \/ Localidx
    \/ Labelidx
    \/ CustomSection
    \/ TypeSection
    \/ Sections

Spec == Init /\ [][Next]_vars

-----------------------------------------------------------------------------
(* The properties *)

\* the decoder d, with width or id sz, on the slice i
Decode(d, sz, i) ==
    CASE d = "byte"                -> byte(i)
      [] d = "unsigned_int"        -> unsigned_int(sz, i)
      [] d = "signed_int"          -> signed_int(sz, i)
      [] d = "vector_length"       -> vector_length(i)
      [] d = "name"                -> name(i)
      [] d = "valtype"             -> valtype(i)
      [] d = "resulttype"          -> resulttype(i)
      [] d = "functype"            -> functype(i)
      [] d = "limits_without_max"  -> limits_without_max(i)
      [] d = "limits_with_max"     -> limits_with_max(i)
      [] d = "limits"              -> limits(i)
      [] d = "elemtype"            -> elemtype(i)
      [] d = "tabletype"           -> tabletype(i)
      [] d = "globaltype"          -> globaltype(i)
      [] d = "blocktype_empty"     -> blocktype_empty(i)
      [] d = "blocktype_valtype"   -> blocktype_valtype(i)
      [] d = "blocktype_typeindex" -> blocktype_typeindex(i)
      [] d = "blocktype"           -> blocktype(i)
      [] d = "typeidx"             -> typeidx(i)
      [] d = "funcidx"             -> funcidx(i)
      [] d = "tableidx"            -> tableidx(i)
      [] d = "memidx"              -> memidx(i)
      [] d = "globalidx"           -> globalidx(i)
      [] d = "localidx"            -> localidx(i)
      [] d = "labelidx"            -> labelidx(i)
      [] d = "section_id_size"     -> section_id_size(sz, i)
      [] d = "custom_section"      -> custom_section(i)
      [] d = "type_section"        -> type_section(i)
      [] d = "sections"            -> sections(i)

\* the decoders C1 names
C1Decoders ==
    {"byte", "unsigned_int", "signed_int", "vector_length", "name", "valtype",
     "resulttype", "functype", "limits", "tabletype", "globaltype", "blocktype",
     "custom_section", "type_section"}

\* C1: no decoder fails by an unstructured fault: on every input each of the
\* named decoders returns a success with a remainder or a reported error,
\* never a panic.
C1_NoUnstructuredFault ==
    called \in C1Decoders => result.kind \in {"Ok", "Incomplete", "Error"}

\* C2: section byte accounting: when custom_section or type_section succeeds,
\* the bytes it consumed after the id byte and the size field are exactly the
\* declared size.
C2_SectionByteAccounting ==
    (called \in {"custom_section", "type_section"} /\ result.kind = "Ok") =>
        LET h == section_id_size(IF called = "custom_section" THEN 0 ELSE 1, input)
        IN  /\ Fits(h.value)
            /\ Len(h.rest) - Len(result.rest) = ToInt(h.value)

\* the integer at the head of i ends (at the first byte with the high bit
\* clear) and sets a bit at position w or above, or starts its last byte at
\* an offset of w or more
OverflowsWidth(w, i) ==
    \E k \in 1..Len(i) :
        /\ ~HighBit(i[k])
        /\ \A j \in 1..(k - 1) : HighBit(i[j])
        /\ \/ 7 * (k - 1) >= w
           \/ \E j \in 1..k : \E b \in Low7(i[j]) : 7 * (j - 1) + b >= w

\* the wrappers of unsigned_int(32, .)
U32Decoders ==
    {"vector_length", "typeidx", "funcidx", "tableidx", "memidx", "globalidx",
     "localidx", "labelidx"}

\* C3: unsigned_int rejects overflow: an encoding that sets a bit at or above
\* the declared width makes unsigned_int and its wrappers return an error,
\* never a success with a truncated or wrapped value.
C3_UnsignedRejectsOverflow ==
    /\ (called = "unsigned_int" /\ OverflowsWidth(size, input)) => result.kind = "Error"
    /\ (called \in U32Decoders /\ OverflowsWidth(U32Bits, input)) => result.kind = "Error"

\* C4: unsigned round trip: for every unsigned v that fits the declared width
\* w and every suffix s, unsigned_int(w, LEB128(v) ++ s) is v with remainder s.
C4_UnsignedRoundTrip ==
    called = "unsigned_int" =>
        \A c \in RoundTrips :
            (input = c[1] /\ c[2] \subseteq 0..(size - 1)) => result = Ok(c[2], c[3])

\* unsigned_int(32, [0xE5, 0x8E, 0x26, 0x80]) has returned 624485 and left [0x80]
C4_Witness ==
    /\ called = "unsigned_int" /\ size = 32
    /\ input = <<229, 142, 38, 128>>
    /\ result.kind = "Ok" /\ ToInt(result.value) = 624485 /\ result.rest = <<128>>

\* the i64 pattern v is a value of the two's-complement range of w bits
InSignedRange(v, w) ==
    \/ (w - 1)..(U64Bits - 1) \subseteq v
    \/ v \cap ((w - 1)..(U64Bits - 1)) = {}

\* C5: signed decode is correct for the whole range: for every v in the
\* two's-complement range of the declared width w, signed_int(w, .) on the
\* signed LEB128 encoding of v returns exactly v.
C5_SignedWholeRange ==
    called = "signed_int" =>
        \A c \in SignedCodes :
            (input = c[1] /\ InSignedRange(c[2], size)) => result = Ok(c[2], <<>>)

\* C6: truncated input is reported as end of input: every proper prefix of an
\* encoding a decoder accepts (the bytes it consumed) makes that decoder
\* return Incomplete, never a success and never another error.
C6_TruncatedIsIncomplete ==
    (called # "none" /\ result.kind = "Ok") =>
        \A k \in 0..(Len(input) - Len(result.rest) - 1) :
            Decode(called, size, SubSeq(input, 1, k)).kind = "Incomplete"

\* resulttype on [0x03, 0x7F], a proper prefix of the accepted
\* [0x03, 0x7F, 0x7E, 0x7E], has returned Incomplete
C6_Witness ==
    /\ called = "resulttype"
    /\ input = <<3, 127>>
    /\ resulttype(<<3, 127, 126, 126>>).kind = "Ok"
    /\ result.kind = "Incomplete"

\* C7: custom section split: for 0x00, a declared size s, a length-prefixed
\* name and following bytes, custom_section returns the name, the s - c bytes
\* right after the name (c the bytes of the name's length and the name), and
\* as remainder the input after them.
C7_CustomSectionSplit ==
    called = "custom_section" =>
        \A c \in CustomCases :
            LET s    == c[2]
                used == c[3] + Len(c[4])
                fw   == c[5]
            IN  (/\ input = c[1]
                 /\ from_utf8(c[4])
                 /\ s >= used
                 /\ Len(fw) >= s - used)
                => result = Ok([tag   |-> "CustomSection",
                                name  |-> c[4],
                                bytes |-> SubSeq(fw, 1, s - used)],
                               SubSeq(fw, s - used + 1, Len(fw)))

\* custom_section on [0x00, 0x08, 0x05, "hello", 0xFF, 0xFE] has returned the
\* name "hello", the bytes [0xFF, 0xFE] and an empty remainder
C7_Witness ==
    /\ called = "custom_section"
    /\ input = <<0, 8, 5, 104, 101, 108, 108, 111, 255, 254>>
    /\ result = Ok([tag   |-> "CustomSection",
                    name  |-> <<104, 101, 108, 108, 111>>,
                    bytes |-> <<255, 254>>], <<>>)

\* the value type of a tag
TypeOfTag(t) ==
    CASE t = 127 -> "I32" [] t = 126 -> "I64" [] t = 125 -> "F32" [] t = 124 -> "F64"

\* C8: resulttype decodes exactly the counted elements in order: after a count
\* n and at least n valid tags, it returns the n value types in input order
\* and the remainder after the n-th tag; if one of the first n tags is not a
\* value type it returns an error (no partial sequence).
C8_ResulttypeCounted ==
    called = "resulttype" =>
        LET l == vector_length(input)
        IN  (l.kind = "Ok" /\ Fits(l.value)) =>
                LET n    == ToInt(l.value)
                    tags == l.rest
                IN  /\ (Len(tags) >= n /\ \A k \in 1..n : tags[k] \in ValTags)
                        => result = Ok([k \in 1..n |-> TypeOfTag(tags[k])],
                                       SubSeq(tags, n + 1, Len(tags)))
                    /\ (\E k \in 1..Len(tags) : k <= n /\ tags[k] \notin ValTags)
                        => result.kind = "Error"

\* resulttype on [0x03, 0x7F, 0x7E, 0x7E] has returned [I32, I64, I64]
C8_Witness ==
    /\ called = "resulttype"
    /\ input = <<3, 127, 126, 126>>
    /\ result = Ok(<<"I32", "I64", "I64">>, <<>>)

\* C9: valtype accepts a closed tag set: on a non-empty input it consumes one
\* byte and yields I32, I64, F32, F64 for 0x7F, 0x7E, 0x7D, 0x7C, and an
\* invalid-tag error for every other leading byte.
C9_ValtypeClosed ==
    (called = "valtype" /\ input # <<>>) =>
        IF input[1] \in ValTags
        THEN result = Ok(TypeOfTag(input[1]), Tail(input))
        ELSE result.kind = "Error" /\ result.code = "Tag"

\* valtype on [0x40], the tag of the empty block type, has returned an error
C9_Witness ==
    /\ called = "valtype"
    /\ input = <<64>>
    /\ result = Error(<<>>, "Tag")

\* C10: blocktype is a choice by leading byte: on every input at most one of
\* blocktype_empty, blocktype_valtype and blocktype_typeindex succeeds.
C10_BlocktypeExclusive ==
    called = "blocktype" =>
        Cardinality({a \in {"blocktype_empty", "blocktype_valtype", "blocktype_typeindex"} :
                        Decode(a, 0, input).kind = "Ok"}) <= 1

=============================================================================
